---- MODULE Spec2Model ----
(***************************************************************************)
(* The batch pipeline of the auto grader: SheetProcessor (the orchestrator *)
(* and the per-row task), the retry/rebuild layer of GoogleAPIHandler and  *)
(* the result shaping of DocumentEvaluator.                                *)
(*                                                                         *)
(* Items are numbered 1..Len(rows); item i is Python index i-1, so its     *)
(* sheet row is (i - 1) + start_row.                                       *)
(***************************************************************************)
EXTENDS Integers, Sequences, FiniteSets, TLC

\* ---------------------------------------------------------------- bounds
\* Largest number of rows the bulk read returns.
MaxRows == 3

\* The longest reference string of the exhaustive ID-resolution runs.
MaxUrlLen == 5

\* Config.MAX_WORKERS (environment-configured, default 5): the model runs the
\* pool with fewer workers than rows so that tasks queue.
MAX_WORKERS == 2

\* ------------------------------------------------------ program constants
start_row == 2
READ_ATTEMPTS == 5
FETCH_ATTEMPTS == 3
WRITE_ATTEMPTS == 5
\* Config.RETRY_ATTEMPTS (default), the cap of evaluate's decorator.
RETRY_ATTEMPTS == 3
MIN_DOC_LEN == 100
FEEDBACK_CAP == 5000
ERROR_TEXT_CAP == 200
INCLUDE_PLAGIARISM_CHECK == TRUE

\* ------------------------------------------------------------ input data
\* Characters of a reference string; IdChars stands for [a-zA-Z0-9-_].
IdChars == {"a", "b", "d", "i", "-", "_"}

UrlEmpty == << >>
UrlInvalid == << "?" >>
UrlPath == << "/", "d", "/", "a" >>

\* A JSON scalar: a number or a string.
Num(n) == [num |-> n]
Text(x) == [text |-> x]

\* What the grading service answers for a document (the parsed JSON object
\* of the prompt's schema: four tabs of 0..25 marks and their sum).
GoodResponse ==
    [total_score |-> Num(85),
     breakdown |-> [tab1_create_insert |-> 25, tab2_er_model |-> 20,
                    tab3_indexes |-> 20, tab4_description |-> 20],
     strengths |-> "S", weaknesses |-> "W",
     recommendations |-> "R", plagiarism_flags |-> "None detected"]

\* The grading call of an item, by the value of resp:
\*   "good"     a well-formed result
\*   "error"    the call raises an API error
\*   "over"     a result whose total_score is above 100
\*   "word"     a result whose total_score is a string that is no sentinel
\*   "bare"     an object without total_score and without texts
\*   "list"     JSON that is a list, not an object
GraderAnswers == {"good", "error", "over", "word", "bare", "list"}

\* Further answers of the grading service:
\*   "garbage"  content that is no JSON
\*   "offsum"   a result whose total_score is not the sum of its breakdown
\*   "odd"      a result with a breakdown value outside 0, 5, .., 25
\*   "regraded" a well-formed result with other marks than "good"
\*   "errfull"  a result with total_score "ERROR" and every text populated
\*   "leaked" .. "nomodel"   the call raises the error of ErrorText
\*   "long0" .. "long3"      results whose feedback is FEEDBACK_CAP - 1,
\*              FEEDBACK_CAP, FEEDBACK_CAP + 1 and FEEDBACK_CAP + 500
\*              characters long
RaisedErrors ==
    {"error", "leaked", "revoked", "unauth", "denied", "quota", "limited",
     "nomodel"}
LongAnswers == {"long0", "long1", "long2", "long3"}
EvaluatorAnswers ==
    GraderAnswers \cup RaisedErrors \cup LongAnswers
        \cup {"garbage", "offsum", "odd", "regraded", "errfull"}

\* str(e) of the exception the grading call raises.
ErrorText(resp) ==
    CASE resp = "leaked" -> "403 Your API key was reported as leaked."
      [] resp = "revoked" -> "Key Leaked. Please use another API key."
      [] resp = "unauth" -> "Error code: 401 - Incorrect API key provided"
      [] resp = "denied" -> "Unauthorized"
      [] resp = "quota" -> "429 You exceeded your current quota."
      [] resp = "limited" -> "Rate limit reached for requests"
      [] resp = "nomodel" ->
            "404 models/gemini-pro is not found for API version v1beta, "
            \o "or is not supported for generateContent."
      [] OTHER -> "boom"

\* The errors a Google API call raises:
\*   "transport"  ssl.SSLError, ConnectionError or another OSError
\*   "auth"       the credentials are rejected (HttpError 401/403)
\*   "ratelimit"  the quota is used up (HttpError 429)
ErrorKinds == {"transport", "auth", "ratelimit"}

\* Remote behaviour of one item, fixed for the run:
\*   fetchFail  number of leading documents().get calls that raise
\*   textLen    length of the text the document store returns
\*   writeFail  number of leading values().update calls for the item's row
\*              that raise a transport error (ssl.SSLError/ConnectionError)
\*   reject     the sink answers every update of the row that reaches it with
\*              an application error (an HttpError, no transport error)
\*   resp       what the grading call does, see GraderAnswers
\*   fetchErr, writeErr   the kind of the errors counted by fetchFail and
\*              writeFail, see ErrorKinds
Healthy ==
    [fetchFail |-> 0, textLen |-> MIN_DOC_LEN, resp |-> "good", writeFail |-> 0,
     reject |-> FALSE,
                    fetchErr |-> "transport", writeErr |-> "transport"]

\* The items a batch is drawn from: a row as read and its remote behaviour.
Profiles ==
    {[row |-> r, beh |-> Healthy] : r \in {<< >>, << UrlEmpty, "Ann" >>}}
    \cup {[row |-> << u, "Ann" >>,
           beh |-> [fetchFail |-> f, textLen |-> n, resp |-> "good",
                    writeFail |-> w, reject |-> FALSE,
                    fetchErr |-> "transport", writeErr |-> "transport"]] :
            u \in {UrlInvalid}, f \in {0}, n \in {MIN_DOC_LEN}, w \in {0, 1}}
    \cup {[row |-> << UrlPath >>,
           beh |-> [fetchFail |-> f, textLen |-> n, resp |-> "good",
                    writeFail |-> w, reject |-> FALSE,
                    fetchErr |-> "transport", writeErr |-> "transport"]] :
            f \in {FETCH_ATTEMPTS}, n \in {MIN_DOC_LEN}, w \in {0, 1}}
    \cup {[row |-> << UrlPath, "Ann" >>,
           beh |-> [fetchFail |-> f, textLen |-> n, resp |-> "good",
                    writeFail |-> w, reject |-> FALSE,
                    fetchErr |-> "transport", writeErr |-> "transport"]] :
            f \in {0}, n \in {MIN_DOC_LEN - 1, MIN_DOC_LEN}, w \in {0, 1}}
    \cup {[row |-> << UrlPath, "Ann" >>, beh |-> [Healthy EXCEPT !.resp = "error"]]}

Batches == UNION {[1..n -> Profiles] : n \in 0..MaxRows}

\* The batches of the fair runs: one item of each kind of outcome.
FairProfiles ==
    {p \in Profiles :
        /\ p.row \in {<< >>, << UrlInvalid, "Ann" >>, << UrlPath >>,
                      << UrlPath, "Ann" >>}
        /\ p.beh.resp = "good"
        /\ p.beh.textLen = MIN_DOC_LEN
        /\ p.beh.writeFail = 1 => p.row = << UrlPath, "Ann" >>}

FairBatches == UNION {[1..n -> FairProfiles] : n \in 0..MaxRows}

\* References no pattern of extract_doc_id matches, and references one does.
InvalidUrls ==
    {UrlInvalid, << "/", "d", "/", "?" >>, << "/", "d", "/" >>,
     << "i", "d", "=" >>, << "a", "?" >>}
ValidUrls ==
    {UrlPath, << "i", "d", "=", "b" >>, << "a", "b" >>,
     << "?", "/", "d", "/", "a", "?" >>}

\* Numbers of leading transport errors of the sink: none, some, and enough to
\* exhaust one and two calls of write_to_sheet.
WriteFailures ==
    {0, 1, WRITE_ATTEMPTS - 1, WRITE_ATTEMPTS, WRITE_ATTEMPTS + 1,
     2 * WRITE_ATTEMPTS - 1, 2 * WRITE_ATTEMPTS}

\* The items of the one-row runs: every kind of row against every behaviour
\* of the document store, the grading service and the sink.
ItemProfiles ==
    {[row |-> r, beh |-> Healthy] :
        r \in {<< >>, << UrlEmpty >>, << UrlEmpty, "Ann" >>}}
    \cup {[row |-> << u >>, beh |-> Healthy] : u \in ValidUrls}
    \cup {[row |-> << u, "Ann" >>,
           beh |-> [Healthy EXCEPT !.writeFail = w, !.reject = j]] :
            u \in InvalidUrls, w \in WriteFailures, j \in BOOLEAN}
    \cup {[row |-> << UrlPath, "Ann" >>,
           beh |-> [fetchFail |-> f, textLen |-> n, resp |-> a,
                    writeFail |-> w, reject |-> j,
                    fetchErr |-> "transport", writeErr |-> "transport"]] :
            f \in 0..FETCH_ATTEMPTS,
            n \in {0, 1, MIN_DOC_LEN - 1, MIN_DOC_LEN, MIN_DOC_LEN + 1},
            a \in GraderAnswers, w \in WriteFailures, j \in BOOLEAN}
    \cup {[row |-> << UrlPath, "Ann" >>,
           beh |-> [Healthy EXCEPT !.resp = a, !.writeFail = w]] :
            a \in EvaluatorAnswers, w \in {0, 1}}
    \cup {[row |-> << u, "Ann" >>,
           beh |-> [Healthy EXCEPT !.fetchFail = f, !.fetchErr = k,
                                   !.writeFail = w, !.writeErr = e]] :
            u \in {UrlInvalid, UrlPath}, f \in 0..FETCH_ATTEMPTS,
            k \in ErrorKinds, w \in WriteFailures, e \in ErrorKinds}

\* The rows of the runs whose bulk read is refused or rate-limited.
ReadBatches == {<< >>, << [row |-> << UrlPath, "Ann" >>, beh |-> Healthy] >>}

ItemBatches == {<< >>} \cup {<< p >> : p \in ItemProfiles}

\* The references of the runs that resolve document IDs: every string of at
\* most MaxUrlLen characters over UrlChars, and longer ones in which two
\* patterns of extract_doc_id compete.
UrlChars == {"/", "d", "i", "=", "a", "?", "\n"}
ShortUrls == UNION {[1..n -> UrlChars] : n \in 1..MaxUrlLen}
MixedUrls ==
    {<< "/", "d", "/", "i", "d", "=", "a" >>,
     << "i", "d", "=", "a", "/", "d", "/", "b" >>,
     << "/", "d", "/", "?", "i", "d", "=", "a" >>,
     << "/", "d", "/", "a", "/", "d", "/", "b" >>,
     << "?", "i", "d", "=", "a", "b", "?", "i", "d", "=", "d" >>}
UrlProfiles ==
    {[row |-> << u >>, beh |-> Healthy] : u \in ShortUrls \cup MixedUrls}
    \cup {[row |-> << u >>, beh |-> [Healthy EXCEPT !.writeFail = 1]] :
            u \in MixedUrls}
UrlBatches == {<< p >> : p \in UrlProfiles}

\* The sheets of the runs that grade one document twice: two rows with the
\* same link and name, the grading service answering each call on its own.
PairProfiles ==
    {[row |-> << UrlPath, "Ann" >>,
      beh |-> [Healthy EXCEPT !.resp = a, !.writeFail = w]] :
        a \in {"good", "regraded", "offsum"}, w \in {0, 1}}
PairBatches == [1..2 -> PairProfiles]

\* ------------------------------------------------------------------ state
VARIABLES
    sheet,           \* the rows of the spreadsheet from start_row on
    beh,             \* remote behaviour of each row's document and sink row
    readFails,       \* number of leading values().get calls that raise
    readErr,         \* the kind of error they raise, see ErrorKinds
    readUsed,        \* the handle the last read attempt ran on, if it raised
    mainpc,          \* position of process_all_documents
    readTry,         \* attempts of read_sheet_rows made so far
    rows,            \* local `rows` of process_all_documents
    queue,           \* submitted work items no worker has taken yet
    task,            \* per item: the state of its process_single_document
    results,         \* local `results` of process_all_documents
    collected,       \* futures as_completed has yielded
    summary,         \* the "Processing complete" line: successful / total
    sink,            \* score and feedback cell of every sheet row
    sheets_service,  \* GoogleAPIHandler._sheets_service: 0 is None
    builds,          \* number of build("sheets", ...) calls made
    docs_service,    \* GoogleAPIHandler._docs_service: 0 is None, else the
                     \* number of build("docs", ...) calls made
    calls,           \* per item: remote calls issued (fetch, eval, update)
    updates,         \* every values().update issued: item, row, call site,
                     \* the two cell values sent, the attempt of the
                     \* write_to_sheet call it is, whether it ran on another
                     \* handle than the attempt before, whether it was
                     \* applied and whether it raised a transport error
    gets             \* every values().get and documents().get issued: the
                     \* operation, item, attempt, whether it ran on
                     \* another handle than the attempt before, and whether
                     \* it raised

vars == << sheet, beh, readFails, readErr, readUsed, mainpc, readTry, rows, queue, task,
           results, collected, summary, sink, sheets_service, builds,
           docs_service, calls, updates, gets >>

Positions == 1..(start_row + MaxRows)
PreRun == << "old", "old" >>
NoSummary == [total |-> -1, successful |-> -1]

\* -------------------------------------------------------- pure functions
\* The longest run of identifier characters of s that starts at p: the
\* greedy group ([a-zA-Z0-9-_]+) of extract_doc_id's patterns.
RECURSIVE IdRun(_, _)
IdRun(s, p) ==
    IF p <= Len(s) /\ s[p] \in IdChars
    THEN << s[p] >> \o IdRun(s, p + 1)
    ELSE << >>

\* re.search(lit + "([a-zA-Z0-9-_]+)", s): the positions where lit is
\* followed by at least one identifier character.
LitMatches(s, lit) ==
    {p \in 1..Len(s) :
        /\ p + Len(lit) <= Len(s)
        /\ SubSeq(s, p, p + Len(lit) - 1) = lit
        /\ s[p + Len(lit)] \in IdChars}

LeftMost(S) == CHOOSE p \in S : \A q \in S : p <= q

\* re.search("^([a-zA-Z0-9-_]+)$", s): the group when the pattern matches,
\* else << >>. The group starts at the first character; `$` matches at the
\* end of the string and also before a newline that ends the string.
WholeMatch(s) ==
    IF IdRun(s, 1) = << >> THEN << >>
    ELSE IF Len(IdRun(s, 1)) = Len(s) THEN s
    ELSE IF Len(IdRun(s, 1)) = Len(s) - 1 /\ s[Len(s)] = "\n"
    THEN IdRun(s, 1)
    ELSE << >>

\* GoogleAPIHandler.extract_doc_id; << >> is None (a match is never empty).
extract_doc_id(url) ==
    IF LitMatches(url, << "/", "d", "/" >>) # {}
    THEN IdRun(url, LeftMost(LitMatches(url, << "/", "d", "/" >>)) + 3)
    ELSE IF LitMatches(url, << "i", "d", "=" >>) # {}
    THEN IdRun(url, LeftMost(LitMatches(url, << "i", "d", "=" >>)) + 3)
    ELSE WholeMatch(url)

\* dict.get(key, default)
Get(d, key, default) == IF key \in DOMAIN d THEN d[key] ELSE default

\* str(v) of a score value: a number prints in decimal, a string is itself.
Str(v) == IF "num" \in DOMAIN v THEN ToString(v.num) ELSE v.text

\* Variant of get_error_result that leaves the recommendations empty.
get_error_result_blank(error_msg) ==
    [total_score |-> Text("ERROR"), breakdown |-> << >>,
     strengths |-> "", weaknesses |-> "",
     recommendations |-> "", plagiarism_flags |-> "Not assessed"]

\* DocumentEvaluator.get_error_result; << >> is the empty dict.
get_error_result(error_msg) ==
    [total_score |-> Text("ERROR"), breakdown |-> << >>,
     strengths |-> "", weaknesses |-> "",
     recommendations |-> "Evaluation failed: " \o error_msg,
     plagiarism_flags |-> "Not assessed"]

\* `sub in text`
Contains(text, sub) ==
    \E p \in 1..(Len(text) - Len(sub) + 1) :
        SubSeq(text, p, p + Len(sub) - 1) = sub

\* str.lower()
UpperCase == "ABCDEFGHIJKLMNOPQRSTUVWXYZ"
LowerCase == "abcdefghijklmnopqrstuvwxyz"
LowerChar(c) ==
    IF \E k \in 1..Len(UpperCase) : SubSeq(UpperCase, k, k) = c
    THEN LET k == CHOOSE k \in 1..Len(UpperCase) : SubSeq(UpperCase, k, k) = c
         IN  SubSeq(LowerCase, k, k)
    ELSE c
RECURSIVE lower(_)
lower(text) ==
    IF Len(text) = 0 THEN ""
    ELSE LowerChar(SubSeq(text, 1, 1)) \o lower(SubSeq(text, 2, Len(text)))

\* A text of n characters.
RECURSIVE Pad(_)
Pad(n) ==
    IF n <= 10 THEN SubSeq("abcdefghij", 1, n)
    ELSE Pad(n \div 2) \o Pad(n - n \div 2)

\* " | ".join(parts)
RECURSIVE Join(_)
Join(parts) ==
    IF Len(parts) = 0 THEN ""
    ELSE IF Len(parts) = 1 THEN parts[1]
    ELSE parts[1] \o " | " \o Join(Tail(parts))

\* Variant of format_feedback without the test for the "ERROR" sentinel.
format_feedback_parts(evaluation) ==
    Join(
        (IF Get(evaluation, "strengths", "") # ""
         THEN << "Strengths: " \o evaluation.strengths >> ELSE << >>)
        \o (IF Get(evaluation, "weaknesses", "") # ""
            THEN << "Areas for Improvement: " \o evaluation.weaknesses >>
            ELSE << >>)
        \o (IF Get(evaluation, "recommendations", "") # ""
            THEN << "Recommendations: " \o evaluation.recommendations >>
            ELSE << >>)
        \o (IF INCLUDE_PLAGIARISM_CHECK
               /\ Get(evaluation, "plagiarism_flags", "") # ""
            THEN << "Plagiarism Check: " \o evaluation.plagiarism_flags >>
            ELSE << >>))

\* DocumentEvaluator.format_feedback
format_feedback(evaluation) ==
    IF Get(evaluation, "total_score", Text("")) = Text("ERROR")
    THEN Get(evaluation, "recommendations", "Evaluation failed")
    ELSE Join(
        (IF Get(evaluation, "strengths", "") # ""
         THEN << "Strengths: " \o evaluation.strengths >> ELSE << >>)
        \o (IF Get(evaluation, "weaknesses", "") # ""
            THEN << "Areas for Improvement: " \o evaluation.weaknesses >>
            ELSE << >>)
        \o (IF Get(evaluation, "recommendations", "") # ""
            THEN << "Recommendations: " \o evaluation.recommendations >>
            ELSE << >>)
        \o (IF INCLUDE_PLAGIARISM_CHECK
               /\ Get(evaluation, "plagiarism_flags", "") # ""
            THEN << "Plagiarism Check: " \o evaluation.plagiarism_flags >>
            ELSE << >>))

\* Variant of Truncate that cuts at the cap without a marker.
TruncateNoMarker(feedback) ==
    IF Len(feedback) > FEEDBACK_CAP
    THEN SubSeq(feedback, 1, FEEDBACK_CAP)
    ELSE feedback

\* The feedback cell write_to_sheet sends: capped at FEEDBACK_CAP characters.
Truncate(feedback) ==
    IF Len(feedback) > FEEDBACK_CAP
    THEN SubSeq(feedback, 1, FEEDBACK_CAP - 3) \o "..."
    ELSE feedback

\* row_number of item i: i + start_row for the 0-based index of enumerate.
RowOf(i) == (i - 1) + start_row

\* ------------------------------------------------------------------ tasks
\* The state of one process_single_document call.
\*   pc      "queued" | "fetch" | "eval" | "wget" | "wcall" | "wrebuild1"
\*           | "wrebuild2" | "finished"
\*   worker  the pool thread running it (0: none)
\*   tries   extract_doc_text attempts made; wtries: of the current
\*           write_to_sheet call
\*   used    the handle the last attempt ran on, if it raised and the
\*           operation is not over (0: none)
\*   site    which write_to_sheet call is running: "invalid" (line 72),
\*           "short" (81), "result" (92), "error" (100)
\*   score, feedback   arguments of the running write_to_sheet call
\*   exc     str(e) of the exception the except clause caught
\*   ret     the future's result: << >> while running
\*   raised  the future ended with an exception
NewTask ==
    [pc |-> "queued", worker |-> 0, tries |-> 0, wtries |-> 0, used |-> 0,
     site |-> "none", score |-> "", feedback |-> "", exc |-> "",
     ret |-> << >>, raised |-> FALSE]

Running(t) == t.pc \notin {"queued", "finished"}

\* return (ok, text): the future completes and the thread is free again.
Return(t, ok, text) ==
    [NewTask EXCEPT !.pc = "finished", !.ret = << ok, text >>]

\* Entering a write_to_sheet(row_number, score, feedback) call.
CallWrite(t, site, score, feedback) ==
    [t EXCEPT !.pc = "wget", !.site = site, !.score = score,
              !.feedback = feedback, !.wtries = 0, !.used = 0]

\* text[:n]
Prefix(text, n) == IF Len(text) > n THEN SubSeq(text, 1, n) ELSE text

\* Variant of OnException without the except clause: the exception leaves
\* process_single_document and ends the future.
OnExceptionPropagates(t, msg) ==
    [NewTask EXCEPT !.pc = "finished", !.raised = TRUE]

\* Variant of OnException without the best-effort write.
OnExceptionNoWrite(t, msg) == Return(t, FALSE, msg)

\* The except clause of process_single_document (lines 97-103): a
\* best-effort write of the failure, then return (False, str(e)).
OnException(t, msg) ==
    CallWrite([t EXCEPT !.exc = msg], "error", "ERROR",
              "Processing failed: " \o Prefix(msg, ERROR_TEXT_CAP))

\* Variant of Begin without the `if not doc_url` test.
BeginNoEmptyCheck(t, row) ==
    LET doc_url == IF Len(row) > 0 THEN row[1] ELSE UrlEmpty
    IN  IF extract_doc_id(doc_url) = << >>
        THEN CallWrite(t, "invalid", "ERROR", "Invalid document URL")
        ELSE [t EXCEPT !.pc = "fetch"]

\* Variant of Begin without the `if not doc_id` test.
BeginNoIdCheck(t, row) ==
    LET doc_url == IF Len(row) > 0 THEN row[1] ELSE UrlEmpty
    IN  IF doc_url = UrlEmpty
        THEN Return(t, FALSE, "No URL")
        ELSE [t EXCEPT !.pc = "fetch"]

\* process_single_document up to its first remote call (lines 60-75).
Begin(t, row) ==
    LET doc_url == IF Len(row) > 0 THEN row[1] ELSE UrlEmpty
    IN  IF doc_url = UrlEmpty
        THEN Return(t, FALSE, "No URL")
        ELSE IF extract_doc_id(doc_url) = << >>
        THEN CallWrite(t, "invalid", "ERROR", "Invalid document URL")
        ELSE [t EXCEPT !.pc = "fetch"]

\* Variant of AfterWrite that reports an item whose score is "ERROR" as
\* failed.
AfterWriteScoredOnly(t) ==
    CASE t.site = "invalid" -> Return(t, FALSE, "Invalid URL")
      [] t.site = "short" -> Return(t, FALSE, "Empty doc")
      [] t.site = "result" -> Return(t, t.score # "ERROR", t.score)
      [] OTHER -> Return(t, FALSE, t.exc)

\* Variant of AfterWrite in which the too-short branch falls into the
\* except clause after its write.
AfterWriteFallsThrough(t) ==
    CASE t.site = "invalid" -> Return(t, FALSE, "Invalid URL")
      [] t.site = "short" -> OnException(t, "Empty doc")
      [] t.site = "result" -> Return(t, TRUE, t.score)
      [] OTHER -> Return(t, FALSE, t.exc)

\* write_to_sheet returned normally: the statement after the call site.
AfterWrite(t) ==
    CASE t.site = "invalid" -> Return(t, FALSE, "Invalid URL")
      [] t.site = "short" -> Return(t, FALSE, "Empty doc")
      [] t.site = "result" -> Return(t, TRUE, t.score)
      [] OTHER -> Return(t, FALSE, t.exc)

\* Variant of WriteRaised in which a failure of the best-effort write
\* replaces the reason of the record.
WriteRaisedMasks(t) ==
    IF t.site = "error"
    THEN Return(t, FALSE, "RetryError of the best-effort write")
    ELSE OnException(t, "RetryError")

\* Variant of WriteRaised in which a failure of the best-effort write
\* enters the except clause again.
WriteRaisedAgain(t) == OnException(t, "RetryError")

\* write_to_sheet raised (its retries are used up): the bare except of the
\* best-effort write swallows it, any other call site enters the except
\* clause.
WriteRaised(t) ==
    IF t.site = "error"
    THEN Return(t, FALSE, t.exc)
    ELSE OnException(t, "RetryError")

\* Variant of AfterFetch that writes the result before the evaluation.
AfterFetchWritesFirst(t, textLen) ==
    IF textLen = 0 \/ textLen < MIN_DOC_LEN
    THEN CallWrite(t, "short", "N/A", "Document empty or too short")
    ELSE CallWrite(t, "result", "ERROR", "")

\* Variant of AfterFetch whose length test is `<=`.
AfterFetchInclusive(t, textLen) ==
    IF textLen = 0 \/ textLen <= MIN_DOC_LEN
    THEN CallWrite(t, "short", "N/A", "Document empty or too short")
    ELSE [t EXCEPT !.pc = "eval"]

\* Lines 79-92 once the document text is there.
AfterFetch(t, textLen) ==
    IF textLen = 0 \/ textLen < MIN_DOC_LEN
    THEN CallWrite(t, "short", "N/A", "Document empty or too short")
    ELSE [t EXCEPT !.pc = "eval"]

\* Lines 88-92 once evaluate has returned.
AfterEvaluate(t, evaluation) ==
    CallWrite(t, "result",
              Str(Get(evaluation, "total_score", Text("ERROR"))),
              format_feedback(evaluation))

\* A result whose formatted feedback has n characters.
LongResponse(n) ==
    [total_score |-> Num(85), breakdown |-> GoodResponse.breakdown,
     strengths |-> Pad(n - Len("Strengths: "))]

\* json.loads(content) for the content the grading call returned.
\* [list |-> ..] stands for a JSON value that is no object.
json_loads(resp) ==
    CASE resp = "good" -> GoodResponse
      [] resp = "over" -> [GoodResponse EXCEPT !.total_score = Num(150)]
      [] resp = "word" -> [GoodResponse EXCEPT !.total_score = Text("high")]
      [] resp = "bare" -> [breakdown |-> << >>]
      [] resp = "offsum" -> [GoodResponse EXCEPT !.total_score = Num(90)]
      [] resp = "odd" ->
            [GoodResponse EXCEPT !.breakdown.tab2_er_model = 18,
                                 !.total_score = Num(83)]
      [] resp = "regraded" ->
            [GoodResponse EXCEPT !.breakdown.tab2_er_model = 15,
                                 !.total_score = Num(80)]
      [] resp = "errfull" ->
            [GoodResponse EXCEPT !.total_score = Text("ERROR"),
                                 !.breakdown = << >>,
                                 !.recommendations = "Submit again"]
      [] resp = "long0" -> LongResponse(FEEDBACK_CAP - 1)
      [] resp = "long1" -> LongResponse(FEEDBACK_CAP)
      [] resp = "long2" -> LongResponse(FEEDBACK_CAP + 1)
      [] resp = "long3" -> LongResponse(FEEDBACK_CAP + 500)
      [] OTHER -> [list |-> << >>]

\* The `except Exception` clause of evaluate (lines 379-391): the reason
\* given for str(e), by the first test that matches.
ErrorReason(error_msg) ==
    LET lowered == lower(error_msg)
    IN  IF Contains(error_msg, "403") \/ Contains(lowered, "leaked")
        THEN "API key is invalid or has been revoked. "
             \o "Please generate a new key."
        ELSE IF Contains(error_msg, "401") \/ Contains(lowered, "unauthorized")
        THEN "API authentication failed. Check your API key."
        ELSE IF Contains(error_msg, "429") \/ Contains(lowered, "quota")
                \/ Contains(lowered, "rate")
        THEN "API rate limit exceeded. Gemini free tier allows only 5 "
             \o "requests per minute. Please wait and retry."
        ELSE "Evaluation error: " \o error_msg

\* Variant of evaluate without the `except Exception` clause: [exc |-> ..]
\* is the exception that leaves the body.
evaluate_uncaught(resp) ==
    IF resp \in RaisedErrors
    THEN [exc |-> ErrorText(resp)]
    ELSE IF resp = "garbage"
    THEN get_error_result("JSON parsing error")
    ELSE IF "list" \in DOMAIN json_loads(resp)
    THEN [exc |-> "'list' object has no attribute 'get'"]
    ELSE json_loads(resp)

\* The body of DocumentEvaluator.evaluate, one run: what it returns (a
\* record [exc |-> ..] would be an exception leaving it; there is none).
\* Everything raised inside the try block is caught:
\*   - the grading call raises: the reason is ErrorReason(str(e));
\*   - json.loads raises JSONDecodeError: "JSON parsing error";
\*   - the parsed value has no get() (line 372, inside the try): the
\*     AttributeError is classified like an error of the grading call;
\*   - otherwise the parsed object is returned as it is.
evaluate(resp) ==
    IF resp \in RaisedErrors
    THEN get_error_result(ErrorReason(ErrorText(resp)))
    ELSE IF resp = "garbage"
    THEN get_error_result("JSON parsing error")
    ELSE IF "list" \in DOMAIN json_loads(resp)
    THEN get_error_result(
            ErrorReason("'list' object has no attribute 'get'"))
    ELSE json_loads(resp)

\* Variant of stop_after_attempt that allows one attempt more.
stop_after_one_more(attempt_number, cap) == attempt_number > cap

\* tenacity's stop_after_attempt(cap) of the three retry decorators: after a
\* failed attempt, no further one is made once cap attempts have been made.
stop_after_attempt(attempt_number, cap) == attempt_number >= cap

\* The sheets_service property (lines 65-69) up to its return statement:
\* build the handle if there is none.
GetterBuilds == sheets_service = 0

EnsureService ==
    IF GetterBuilds
    THEN sheets_service' = builds + 1 /\ builds' = builds + 1
    ELSE UNCHANGED << sheets_service, builds >>

\* ------------------------------------------------------------------- Init
InitWith(batches, readFailures, readKinds) ==
    /\ \E b \in batches :
        /\ sheet = [i \in DOMAIN b |-> b[i].row]
        /\ beh = [i \in DOMAIN b |-> b[i].beh]
    /\ readFails \in readFailures
    /\ readErr \in IF readFails = 0 THEN {"transport"} ELSE readKinds
    /\ readUsed = 0
    /\ mainpc = "read"
    /\ readTry = 0
    /\ rows = << >>
    /\ queue = << >>
    /\ task = << >>
    /\ results = << >>
    /\ collected = {}
    /\ summary = NoSummary
    /\ sink = [r \in Positions |-> PreRun]
    /\ sheets_service = 0
    /\ builds = 0
    /\ docs_service = 0
    /\ calls = << >>
    /\ updates = {}
    /\ gets = {}

\* Batches read after one failed attempt of the bulk read: the retry only
\* shifts the handle numbers of the run that follows, so these stay short.
RetriedBatches == {b \in Batches : Len(b) <= 1}

Init ==
    \/ InitWith(Batches, {0, READ_ATTEMPTS}, {"transport"})
    \/ InitWith(RetriedBatches, {1}, {"transport"})

FairInit == InitWith(FairBatches, {0, READ_ATTEMPTS}, {"transport"})

\* One row whose reference is any of the strings of UrlProfiles.
UrlInit == InitWith(UrlBatches, {0}, {"transport"})

\* One document in two rows; the bulk read succeeds.
PairInit == InitWith(PairBatches, {0}, {"transport"})

\* A sheet of at most one row, under every read behaviour.
ItemInit ==
    \/ InitWith(ItemBatches, 0..READ_ATTEMPTS, {"transport"})
    \/ InitWith(ReadBatches, 1..READ_ATTEMPTS, ErrorKinds \ {"transport"})

\* ---------------------------------------------------------- orchestrator
\* Variant of AfterRead without the `if not rows` test.
AfterReadAlwaysSubmits(rs) == "submit"

\* Lines 23-27 of process_all_documents: no rows, no work.
AfterRead(rs) == IF Len(rs) = 0 THEN "norows" ELSE "submit"

\* The handle the sheets_service property gives the main thread.
ReadHandle == IF GetterBuilds THEN builds + 1 ELSE sheets_service

\* One attempt of read_sheet_rows (lines 20-25 of process_all_documents,
\* read_sheet_rows with its retry decorator). A transport error rebuilds the
\* handle, any other error is only logged; both are re-raised and retried,
\* and the fifth failure is fatal to the run.
ReadRows ==
    /\ mainpc = "read"
    /\ readTry' = readTry + 1
    /\ gets' = gets \cup
            {[op |-> "read", item |-> 0, doc |-> << >>,
              attempt |-> readTry + 1,
              fresh |-> ReadHandle # readUsed,
              raised |-> readTry + 1 <= readFails]}
    /\ readUsed' = IF readTry + 1 <= readFails THEN ReadHandle ELSE 0
    /\ IF readTry + 1 <= readFails
       THEN /\ IF readErr = "transport"
               THEN /\ sheets_service' = builds + (IF GetterBuilds THEN 2 ELSE 1)
                    /\ builds' = builds + (IF GetterBuilds THEN 2 ELSE 1)
               ELSE EnsureService
            /\ mainpc' = IF stop_after_attempt(readTry + 1, READ_ATTEMPTS)
                         THEN "fatal" ELSE "read"
            /\ UNCHANGED rows
       ELSE /\ EnsureService
            /\ rows' = sheet
            /\ mainpc' = AfterRead(sheet)
    /\ UNCHANGED << sheet, beh, readFails, readErr, queue, task, results,
                    collected, summary, sink, calls, updates, docs_service >>

\* The dict comprehension of lines 32-38: one submit per row, in row order.
Submit ==
    /\ mainpc = "submit"
    /\ queue' = [i \in 1..Len(rows) |-> i]
    /\ task' = [i \in 1..Len(rows) |-> NewTask]
    /\ calls' = [i \in 1..Len(rows) |-> [fetch |-> 0, eval |-> 0, update |-> 0]]
    /\ mainpc' = "collect"
    /\ UNCHANGED << sheet, beh, readFails, readErr, readUsed, readTry, rows, results, collected,
                    summary, sink, sheets_service, builds, updates,
                    docs_service, gets >>

\* Variant of Idle for a pool that starts a thread per submitted item.
IdleAlways(w) == TRUE

\* A pool thread with nothing to do takes the oldest queued work item and
\* starts process_single_document on it.
Idle(w) == \A i \in DOMAIN task : ~(Running(task[i]) /\ task[i].worker = w)

Take(w) ==
    /\ Len(queue) > 0
    /\ Idle(w)
    /\ LET i == Head(queue)
       IN  task' = [task EXCEPT ![i] = Begin([@ EXCEPT !.worker = w], rows[i])]
    /\ queue' = Tail(queue)
    /\ UNCHANGED << sheet, beh, readFails, readErr, readUsed, mainpc, readTry, rows, results,
                    collected, summary, sink, sheets_service, builds, calls,
                    updates,
                    docs_service, gets >>

\* Variant of Record that keeps the records of successful items only.
RecordSuccessOnly(rs, t) ==
    IF t.raised \/ ~t.ret[1] THEN rs ELSE Append(rs, t.ret)

\* Lines 42-47: the result of a future is appended; a future that raised is
\* logged and leaves no record.
Record(rs, t) == IF t.raised THEN rs ELSE Append(rs, t.ret)

\* One iteration of `for future in as_completed(futures)` (lines 40-47).
Collect(i) ==
    /\ mainpc = "collect"
    /\ i \in DOMAIN task
    /\ task[i].pc = "finished"
    /\ i \notin collected
    /\ collected' = collected \cup {i}
    /\ results' = Record(results, task[i])
    /\ UNCHANGED << sheet, beh, readFails, readErr, readUsed, mainpc, readTry, rows, queue, task,
                    summary, sink, sheets_service, builds, calls, updates,
                    docs_service, gets >>

\* Variant of Successful that counts every record.
SuccessfulAll(rs) == Len(rs)

\* Lines 49-51, after the loop has seen every future and the executor has
\* shut down.
Successful(rs) == Cardinality({k \in DOMAIN rs : rs[k][1]})

\* Variants of AllYielded: the loop is left at the first completion; the
\* loop waits for one completion more than there are futures.
AllYieldedFirst == collected # {}

AllYieldedOffByOne == Cardinality(collected) = Len(rows) + 1

\* as_completed is exhausted once it has yielded every submitted future.
AllYielded == collected = DOMAIN task

Summarize ==
    /\ mainpc = "collect"
    /\ AllYielded
    /\ summary' = [total |-> Len(rows), successful |-> Successful(results)]
    /\ mainpc' = "done"
    /\ UNCHANGED << sheet, beh, readFails, readErr, readUsed, readTry, rows, queue, task, results,
                    collected, sink, sheets_service, builds, calls, updates,
                    docs_service, gets >>

\* ----------------------------------------------------------- worker steps
\* One attempt of extract_doc_text (line 78; retry decorator of
\* google_api.py line 116: three attempts, every exception retried).
\* The docs_service property (lines 71-75) finds no handle: the call waits
\* for DocsBuild. Otherwise documents().get runs on the handle; whatever it
\* raises is logged and re-raised, and the handle is left as it is.
FetchDoc(i) ==
    /\ i \in DOMAIN task
    /\ task[i].pc = "fetch"
    /\ IF docs_service = 0
       THEN /\ task' = [task EXCEPT ![i].pc = "dbuild"]
            /\ UNCHANGED << calls, gets >>
       ELSE /\ calls' = [calls EXCEPT ![i].fetch = @ + 1]
            /\ gets' = gets \cup
                    {[op |-> "fetch", item |-> i,
                      doc |-> extract_doc_id(rows[i][1]),
                      attempt |-> task[i].tries + 1,
                      fresh |-> docs_service # task[i].used,
                      raised |-> task[i].tries + 1 <= beh[i].fetchFail]}
            /\ LET t == [task[i] EXCEPT !.tries = @ + 1]
               IN  task' = [task EXCEPT ![i] =
                        IF t.tries <= beh[i].fetchFail
                        THEN IF stop_after_attempt(t.tries, FETCH_ATTEMPTS)
                             THEN OnException(t, "RetryError")
                             ELSE [t EXCEPT !.used = docs_service]
                        ELSE AfterFetch([t EXCEPT !.used = 0], beh[i].textLen)]
    /\ UNCHANGED << sheet, beh, readFails, readErr, readUsed, mainpc, readTry, rows, queue,
                    results, collected, summary, sink, sheets_service, builds,
                    updates, docs_service >>

\* The docs_service property having found no handle: build("docs", ...) and
\* the assignment of the new handle, whatever another thread has assigned
\* meanwhile.
DocsBuild(i) ==
    /\ i \in DOMAIN task
    /\ task[i].pc = "dbuild"
    /\ docs_service' = docs_service + 1
    /\ task' = [task EXCEPT ![i].pc = "fetch"]
    /\ UNCHANGED << sheet, beh, readFails, readErr, readUsed, mainpc, readTry, rows, queue,
                    results, collected, summary, sink, sheets_service, builds,
                    calls, updates, gets >>

\* One run of evaluate's body under its retry decorator (evaluator.py lines
\* 178-179; line 85 of process_single_document): an exception leaving the
\* body is retried until RETRY_ATTEMPTS runs have been made and then raised
\* to process_single_document; a returned result is formatted and written.
Evaluate(i) ==
    /\ i \in DOMAIN task
    /\ task[i].pc = "eval"
    /\ calls' = [calls EXCEPT ![i].eval = @ + 1]
    /\ task' = [task EXCEPT ![i] =
            IF "exc" \in DOMAIN evaluate(beh[i].resp)
            THEN IF stop_after_attempt(calls[i].eval + 1, RETRY_ATTEMPTS)
                 THEN OnException(@, "RetryError")
                 ELSE @
            ELSE AfterEvaluate(@, evaluate(beh[i].resp))]
    /\ UNCHANGED << sheet, beh, readFails, readErr, readUsed, mainpc, readTry, rows, queue,
                    results, collected, summary, sink, sheets_service, builds,
                    updates,
                    docs_service, gets >>

\* write_to_sheet, one attempt, first half: the sheets_service property
\* tests the handle and builds one if there is none.
WriteGet(i) ==
    /\ i \in DOMAIN task
    /\ task[i].pc = "wget"
    /\ EnsureService
    /\ task' = [task EXCEPT ![i].pc = "wcall"]
    /\ UNCHANGED << sheet, beh, readFails, readErr, readUsed, mainpc, readTry, rows, queue,
                    results, collected, summary, sink, calls, updates,
                    docs_service, gets >>

\* Variant of TargetRow that passes start_row instead of i + start_row.
TargetRowFixed(i) == start_row

\* Variant of TargetRow for an enumerate that counts from 1.
TargetRowOneBased(i) == i + start_row

\* The row a task's write_to_sheet call addresses (its row_number argument).
TargetRow(i) == RowOf(i)

\* body = {"values": [[score, feedback]]} of the update, the feedback capped.
SentCells(score, feedback) == << score, Truncate(feedback) >>

\* Variant of UpdateCells for an update whose range is the score cell alone.
UpdateScoreOnly(old, cells) == << cells[1], old[2] >>

\* The row after values().update on the range C<row>:D<row> with one row of
\* two values: both cells are replaced.
UpdateCells(old, cells) == cells

\* What the next values().update of item i's row does: an error of the kind
\* writeErr for the first writeFail calls, then an application error if the
\* sink rejects the row, else the update is applied.
UpdateOutcome(i) ==
    IF calls[i].update + 1 <= beh[i].writeFail THEN beh[i].writeErr
    ELSE IF beh[i].reject THEN "rejected"
    ELSE "ok"

\* Variant of ReRaised in which write_to_sheet re-raises every error.
ReRaisedAlways(outcome) == outcome # "ok"

\* The except clauses of write_to_sheet (lines 171-179): a transport error is
\* re-raised after the rebuild, any other error is logged and dropped.
ReRaised(outcome) == outcome = "transport"

\* write_to_sheet, one attempt, second half: the property returns the handle
\* as it is now and values().update(...).execute() runs on it.
\*   - the handle is None: the AttributeError is caught by `except Exception`
\*     and only logged, the call returns without having written;
\*   - the update raises a transport error: the handler rebuilds the handle;
\*   - the update raises another error: `except Exception` only logs it and
\*     the call returns without having written;
\*   - otherwise both cells of the row are written in one update.
WriteCall(i) ==
    /\ i \in DOMAIN task
    /\ task[i].pc = "wcall"
    /\ IF sheets_service = 0
       THEN /\ task' = [task EXCEPT ![i] = AfterWrite(@)]
            /\ UNCHANGED << sink, calls, updates >>
       ELSE /\ calls' = [calls EXCEPT ![i].update = @ + 1]
            /\ updates' = updates \cup
                    {[item |-> i, row |-> TargetRow(i), site |-> task[i].site,
                      cells |-> SentCells(task[i].score, task[i].feedback),
                      attempt |-> task[i].wtries + 1,
                      fresh |-> sheets_service # task[i].used,
                      ok |-> UpdateOutcome(i) = "ok",
                      transport |-> UpdateOutcome(i) = "transport"]}
            /\ IF ReRaised(UpdateOutcome(i))
               THEN /\ task' = [task EXCEPT ![i].pc = "wrebuild1",
                                            ![i].used = sheets_service]
                    /\ UNCHANGED sink
               ELSE /\ task' = [task EXCEPT ![i] = AfterWrite(@)]
                    /\ sink' = [sink EXCEPT ![TargetRow(i)] =
                            IF UpdateOutcome(i) = "ok"
                            THEN UpdateCells(@, SentCells(task[i].score,
                                                          task[i].feedback))
                            ELSE @]
    /\ UNCHANGED << sheet, beh, readFails, readErr, readUsed, mainpc, readTry, rows, queue,
                    results, collected, summary, sheets_service, builds,
                    docs_service, gets >>

\* _rebuild_sheets_service, line 61: the shared handle is dropped.
WriteRebuildDrop(i) ==
    /\ i \in DOMAIN task
    /\ task[i].pc = "wrebuild1"
    /\ sheets_service' = 0
    /\ task' = [task EXCEPT ![i].pc = "wrebuild2"]
    /\ UNCHANGED << sheet, beh, readFails, readErr, readUsed, mainpc, readTry, rows, queue,
                    results, collected, summary, sink, builds, calls, updates,
                    docs_service, gets >>

\* _rebuild_sheets_service after its sleep: the property builds a handle if
\* there is still none; then the error is re-raised to the retry decorator,
\* which tries again unless this was the fifth attempt.
WriteRebuildRetry(i) ==
    /\ i \in DOMAIN task
    /\ task[i].pc = "wrebuild2"
    /\ EnsureService
    /\ LET t == [task[i] EXCEPT !.wtries = @ + 1]
       IN  task' = [task EXCEPT ![i] =
                IF stop_after_attempt(t.wtries, WRITE_ATTEMPTS)
                THEN WriteRaised(t)
                ELSE [t EXCEPT !.pc = "wget"]]
    /\ UNCHANGED << sheet, beh, readFails, readErr, readUsed, mainpc, readTry, rows, queue,
                    results, collected, summary, sink, calls, updates,
                    docs_service, gets >>

\* ------------------------------------------------------------ entry point
\* Variant of exit_status for a main that only logs the fatal error.
exit_status_logged ==
    IF mainpc \in {"done", "norows", "fatal"} THEN 0 ELSE -1

\* The exit status of main(): 1 when process_all_documents raised
\* (sys.exit(1) in the except clause), 0 when it returned, -1 while the
\* process is still running.
exit_status ==
    CASE mainpc = "fatal" -> 1
      [] mainpc \in {"done", "norows"} -> 0
      [] OTHER -> -1

\* ------------------------------------------------------------------- Next
Next ==
    \/ ReadRows
    \/ Submit
    \/ \E w \in 1..MAX_WORKERS : Take(w)
    \/ \E i \in 1..MaxRows : FetchDoc(i)
    \/ \E i \in 1..MaxRows : DocsBuild(i)
    \/ \E i \in 1..MaxRows : Evaluate(i)
    \/ \E i \in 1..MaxRows : WriteGet(i)
    \/ \E i \in 1..MaxRows : WriteCall(i)
    \/ \E i \in 1..MaxRows : WriteRebuildDrop(i)
    \/ \E i \in 1..MaxRows : WriteRebuildRetry(i)
    \/ \E i \in 1..MaxRows : Collect(i)
    \/ Summarize

Spec == Init /\ [][Next]_vars

\* The runs over a sheet of at most one row: one process_single_document.
ItemSpec == ItemInit /\ [][Next]_vars

\* The runs that resolve the document ID of one reference.
UrlSpec == UrlInit /\ [][Next]_vars

\* The runs that grade one document twice.
PairSpec == PairInit /\ [][Next]_vars

\* The main thread and the pool threads are scheduled fairly, and every
\* remote call returns or raises: no enabled step is postponed for ever.
MainStep == ReadRows \/ Submit \/ (\E i \in 1..MaxRows : Collect(i)) \/ Summarize
PoolStep(i) ==
    \/ FetchDoc(i) \/ DocsBuild(i) \/ Evaluate(i) \/ WriteGet(i) \/ WriteCall(i)
    \/ WriteRebuildDrop(i) \/ WriteRebuildRetry(i)

FairSpec ==
    /\ FairInit /\ [][Next]_vars
    /\ WF_vars(MainStep)
    /\ WF_vars(\E w \in 1..MAX_WORKERS : Take(w))
    /\ \A i \in 1..MaxRows : WF_vars(PoolStep(i))

TypeOK ==
    /\ mainpc \in {"read", "submit", "collect", "done", "norows", "fatal"}
    /\ sheets_service \in 0..builds

\* ================================================================ claims
\* What the claims say about an item, read off the input alone.
DocUrl(i) == IF Len(sheet[i]) > 0 THEN sheet[i][1] ELSE UrlEmpty
HasDocId(i) == DocUrl(i) # UrlEmpty /\ extract_doc_id(DocUrl(i)) # << >>
FetchAlwaysFails(i) == HasDocId(i) /\ beh[i].fetchFail >= FETCH_ATTEMPTS
\* Scorable: the document is fetched, is long enough, is graded, and the sink
\* takes the item's row.
Scorable(i) ==
    /\ HasDocId(i)
    /\ beh[i].fetchFail < FETCH_ATTEMPTS
    /\ beh[i].textLen >= MIN_DOC_LEN
    /\ beh[i].resp = "good"
    /\ beh[i].writeFail = 0
\* No values().update of the run is hit by a transport error.
SinkHealthy == \A i \in DOMAIN beh : beh[i].writeFail = 0
GoodCells == << "85", Truncate(format_feedback(GoodResponse)) >>
AllFinished == \A i \in DOMAIN task : task[i].pc = "finished"

\* C1: per-item failure isolation. In a batch where the fetch of item k fails
\* on every attempt, the run never raises after the rows were read, and once
\* it is over: totalItems is the number of rows, item k is a failure, every
\* scorable item j # k is a success with its own score, its row holds its
\* score and feedback (the sink taking every update of the run), and with all
\* other items scorable successCount is N - 1.
C1_FailureIsolation ==
    \A k \in DOMAIN beh :
        FetchAlwaysFails(k) =>
            /\ Len(rows) > 0 => mainpc # "fatal"
            /\ mainpc = "done" =>
                /\ summary.total = Len(sheet)
                /\ task[k].ret # << >> /\ ~task[k].ret[1]
                /\ \A j \in DOMAIN beh \ {k} :
                    Scorable(j) =>
                        /\ task[j].ret = << TRUE, "85" >>
                        /\ SinkHealthy => sink[RowOf(j)] = GoodCells
                /\ (\A j \in DOMAIN beh \ {k} : Scorable(j)) =>
                        summary.successful = Len(sheet) - 1

\* A finished three-row batch whose middle item failed every fetch while the
\* other two were scored and written.
C1_Witness ==
    /\ mainpc = "done"
    /\ Len(sheet) = 3
    /\ FetchAlwaysFails(2) /\ Scorable(1) /\ Scorable(3)
    /\ beh[2].writeFail = 0
    /\ calls[2].fetch = FETCH_ATTEMPTS
    /\ summary = [total |-> 3, successful |-> 2]
    /\ sink[RowOf(1)] = GoodCells /\ sink[RowOf(3)] = GoodCells

\* The number of times record r occurs in the sequence rs.
Occurrences(rs, r) == Cardinality({k \in DOMAIN rs : rs[k] = r})

\* C2: exactly one OutcomeRecord per dispatched row. When the run is over the
\* collected results have one record per row read: no future ended with an
\* exception, and every record value occurs in results as often as there are
\* tasks that returned it.
C2_OneRecordPerRow ==
    mainpc = "done" =>
        /\ Len(results) = Len(rows)
        /\ \A i \in DOMAIN task : ~task[i].raised /\ task[i].ret # << >>
        /\ \A i \in DOMAIN task :
            Occurrences(results, task[i].ret)
                = Cardinality({j \in DOMAIN task : task[j].ret = task[i].ret})

\* A finished batch in which a task whose fetch failed every time still
\* yielded a (failed) record.
C2_Witness ==
    /\ mainpc = "done"
    /\ Len(rows) = 3
    /\ \E k \in DOMAIN beh :
        FetchAlwaysFails(k) /\ task[k].ret = << FALSE, "RetryError" >>
    /\ Len(results) = 3

\* C3: batch summary counts. A run that read at least one row ends with a
\* summary whose totalItems is the number of rows the bulk read returned and
\* whose successCount is the number of records with success = true, between
\* 0 and totalItems; no other run produces a summary.
C3_SummaryCounts ==
    /\ mainpc = "done" =>
        /\ Len(sheet) >= 1
        /\ summary.total = Len(sheet)
        /\ summary.successful
            = Cardinality({k \in DOMAIN results : results[k][1] = TRUE})
        /\ summary.successful
            = Cardinality({i \in DOMAIN task : task[i].ret[1] = TRUE})
        /\ 0 <= summary.successful /\ summary.successful <= summary.total
    /\ mainpc # "done" => summary = NoSummary

\* A finished run with both successful and failed records.
C3_Witness ==
    /\ mainpc = "done"
    /\ summary = [total |-> 3, successful |-> 1]

\* The items being processed: taken by a pool thread and not yet finished.
InFlight == {i \in DOMAIN task : Running(task[i])}

\* C4: bounded concurrency. At most MAX_WORKERS items are in flight, every
\* one of them on a thread of the pool, and no thread runs two items.
C4_BoundedConcurrency ==
    /\ Cardinality(InFlight) <= MAX_WORKERS
    /\ \A i \in InFlight : task[i].worker \in 1..MAX_WORKERS
    /\ \A i, j \in InFlight : i # j => task[i].worker # task[j].worker

\* Every thread of the pool is busy while a further item waits in the queue.
C4_Witness ==
    /\ Cardinality(InFlight) = MAX_WORKERS
    /\ Len(queue) > 0

\* C5: the summary is computed only after every dispatched task has
\* finished. Whenever there is a summary, no item is queued or in flight,
\* and every task ran to its end (none was dropped from the queue unrun).
C5_SummaryAfterAll ==
    summary # NoSummary =>
        /\ Len(queue) = 0
        /\ InFlight = {}
        /\ DOMAIN task = 1..Len(sheet)
        /\ AllFinished
        /\ \A i \in DOMAIN task : task[i].ret # << >> \/ task[i].raised

\* The summary of a batch whose last task needed a retried write.
C5_Witness ==
    /\ summary # NoSummary
    /\ Len(sheet) = 3
    /\ calls[3].update = 2

\* The run has ended: with a summary, with nothing to do, or by raising.
Terminated == mainpc \in {"done", "norows", "fatal"}

\* C6: run to completion. Under fair scheduling of the main thread and the
\* pool threads (every remote call returning or raising), a dispatched batch
\* leads to a state where every item has its final outcome and the run has
\* produced its summary; and every run terminates.
C6_RunToCompletion ==
    /\ (mainpc = "collect") ~>
            (/\ mainpc = "done"
             /\ \A i \in DOMAIN task :
                    task[i].pc = "finished" /\ task[i].ret # << >>)
    /\ <>Terminated

\* A finished batch with an item that failed after its fetch retries were
\* used up and an item that succeeded after a retried write.
C6_Witness ==
    /\ mainpc = "done"
    /\ \E k \in DOMAIN task :
        calls[k].fetch = FETCH_ATTEMPTS /\ task[k].ret = << FALSE, "RetryError" >>
    /\ \E j \in DOMAIN task : calls[j].update = 2 /\ task[j].ret[1] = TRUE

\* What item i yields when its task runs with no other task beside it, from
\* its row and its remote behaviour: the record ...
SoloRet(i) ==
    IF DocUrl(i) = UrlEmpty THEN << FALSE, "No URL" >>
    ELSE IF ~HasDocId(i) THEN
        IF beh[i].writeFail >= WRITE_ATTEMPTS
        THEN << FALSE, "RetryError" >> ELSE << FALSE, "Invalid URL" >>
    ELSE IF beh[i].fetchFail >= FETCH_ATTEMPTS THEN << FALSE, "RetryError" >>
    ELSE IF beh[i].textLen < MIN_DOC_LEN THEN
        IF beh[i].writeFail >= WRITE_ATTEMPTS
        THEN << FALSE, "RetryError" >> ELSE << FALSE, "Empty doc" >>
    ELSE IF beh[i].writeFail >= WRITE_ATTEMPTS THEN << FALSE, "RetryError" >>
    ELSE << TRUE, Str(evaluate(beh[i].resp).total_score) >>

\* ... and the final cells of its row.
SoloCells(i) ==
    IF DocUrl(i) = UrlEmpty THEN PreRun
    ELSE IF beh[i].writeFail >= 2 * WRITE_ATTEMPTS THEN PreRun
    ELSE IF SoloRet(i) = << FALSE, "RetryError" >>
        THEN << "ERROR", "Processing failed: RetryError" >>
    ELSE IF ~HasDocId(i) THEN << "ERROR", "Invalid document URL" >>
    ELSE IF beh[i].textLen < MIN_DOC_LEN
        THEN << "N/A", "Document empty or too short" >>
    ELSE << Str(evaluate(beh[i].resp).total_score),
            Truncate(format_feedback(evaluate(beh[i].resp))) >>

\* C7: completion-order independence. For the fixed remote behaviour of the
\* items, every interleaving of the tasks ends with the same summary and the
\* same content of every sink row: the ones each item yields on its own.
C7_OrderIndependent ==
    mainpc = "done" =>
        /\ summary = [total |-> Len(sheet),
                      successful |->
                        Cardinality({i \in DOMAIN beh : SoloRet(i)[1]})]
        /\ \A i \in DOMAIN beh : sink[RowOf(i)] = SoloCells(i)

\* C8: exclusive row ownership. Every item is held by one task (queued,
\* running or finished, never twice in the queue), every update a task
\* issues addresses row start_row + i of its own item i, and no row is
\* addressed by two tasks; rows of no item are never written.
C8_RowOwnership ==
    /\ \A p, q \in DOMAIN queue : p # q => queue[p] # queue[q]
    /\ \A p \in DOMAIN queue : task[queue[p]].pc = "queued"
    /\ \A i \in DOMAIN task :
        task[i].pc = "queued" => \E p \in DOMAIN queue : queue[p] = i
    /\ \A u \in updates : u.row = (u.item - 1) + start_row
    /\ \A u, v \in updates : u.row = v.row => u.item = v.item
    /\ \A r \in Positions :
        sink[r] # PreRun => \E u \in updates : u.row = r

\* Three tasks have each written, each to its own row.
C8_Witness ==
    /\ Cardinality({u.item : u \in updates}) = 3
    /\ Cardinality({u.row : u \in updates}) = 3
    /\ \A i \in 1..3 : sink[RowOf(i)] # PreRun

\* A successful documents().get call was made for item i.
Fetched(i) == calls[i].fetch > beh[i].fetchFail

\* C9: stage ordering within one item. The grading service is called for an
\* item only after a fetch of its document succeeded, and the update that
\* writes the item's result is issued only after its evaluation returned.
C9_StageOrder ==
    /\ \A i \in DOMAIN task :
        (task[i].pc = "eval" \/ calls[i].eval > 0) => Fetched(i)
    /\ \A i \in DOMAIN task :
        (Running(task[i]) /\ task[i].site = "result") => calls[i].eval = 1
    /\ \A u \in updates :
        u.site = "result" => Fetched(u.item) /\ calls[u.item].eval = 1

\* One item's result is in its row while another item, its document
\* fetched, is still waiting for its grading call.
C9_Witness ==
    /\ \E u \in updates : u.site = "result" /\ sink[u.row] = GoodCells
    /\ \E i \in DOMAIN task : task[i].pc = "eval"

\* C10: an item with an empty reference makes no remote call (no fetch, no
\* evaluation, no sink update, its row untouched) and its task returns
\* (False, "No URL").
C10_EmptyReference ==
    \A i \in DOMAIN task :
        DocUrl(i) = UrlEmpty =>
            /\ calls[i] = [fetch |-> 0, eval |-> 0, update |-> 0]
            /\ \A u \in updates : u.item # i
            /\ sink[RowOf(i)] = PreRun
            /\ task[i].pc \in {"queued", "finished"}
            /\ task[i].pc = "finished" => task[i].ret = << FALSE, "No URL" >>

\* Tasks of an empty row and of a row with an empty link cell have returned.
C10_Witness ==
    /\ \E i \in DOMAIN task :
        sheet[i] = << >> /\ task[i].ret = << FALSE, "No URL" >>
    /\ \E i \in DOMAIN task :
        sheet[i] = << UrlEmpty, "Ann" >> /\ task[i].ret = << FALSE, "No URL" >>

\* ---- C11..C20: what one process_single_document does
Finished(i) == i \in DOMAIN task /\ task[i].pc = "finished"
InvalidRef(i) == DocUrl(i) # UrlEmpty /\ extract_doc_id(DocUrl(i)) = << >>
\* The item's first write_to_sheet call returns (its retries are not used up),
\* and the sink applies the update the call ends with.
\* The leading errors of the sink for item i that are transport errors, and
\* those that are not (the sink refuses the update).
TransportFails(i) ==
    IF beh[i].writeErr = "transport" THEN beh[i].writeFail ELSE 0
Refusals(i) == beh[i].writeFail - TransportFails(i)
WriteReturns(i) == TransportFails(i) < WRITE_ATTEMPTS
WriteLands(i) == WriteReturns(i) /\ ~beh[i].reject /\ Refusals(i) = 0
\* No other item's write hits a transport error, so no other task drops the
\* shared handle while item i uses it.
Undisturbed(i) == \A j \in DOMAIN beh \ {i} : beh[j].writeFail = 0
UpdatesOf(i, site) == {u \in updates : u.item = i /\ u.site = site}
InvalidCells == << "ERROR", "Invalid document URL" >>

\* C11: an item whose reference is not empty and matches no ID pattern never
\* calls the document store or the grading service; the one result it sends
\* is ("ERROR", "Invalid document URL") for its own row; when the item is
\* done and no other task has dropped the handle under it, that write has
\* been issued, the row holds these two values once the sink has taken the
\* write, and the item's record is (False, "Invalid URL") once the write
\* call has returned.
C11_InvalidReference ==
    \A i \in DOMAIN task :
        InvalidRef(i) =>
            /\ calls[i].fetch = 0 /\ calls[i].eval = 0
            /\ UpdatesOf(i, "short") = {} /\ UpdatesOf(i, "result") = {}
            /\ \A u \in UpdatesOf(i, "invalid") :
                    u.row = RowOf(i) /\ u.cells = InvalidCells
            /\ Finished(i) /\ Undisturbed(i) =>
                    /\ UpdatesOf(i, "invalid") # {}
                    /\ WriteReturns(i) => task[i].ret = << FALSE, "Invalid URL" >>
                    /\ WriteLands(i) => sink[RowOf(i)] = InvalidCells

\* An item whose reference has the "/d/" marker but no ID after it is done,
\* after four transport errors of the sink, with the marker in its row.
C11_Witness ==
    \E i \in DOMAIN task :
        /\ DocUrl(i) = << "/", "d", "/", "?" >>
        /\ beh[i].writeFail = WRITE_ATTEMPTS - 1
        /\ Finished(i)
        /\ task[i].ret = << FALSE, "Invalid URL" >>
        /\ sink[RowOf(i)] = InvalidCells
        /\ calls[i].fetch = 0

ShortCells == << "N/A", "Document empty or too short" >>

\* C12: once the text of an item's document is fetched and is empty or
\* shorter than 100 characters, the item never calls the grading service and
\* the one result it sends is ("N/A", "Document empty or too short") for its
\* own row; when it is done (no other task having dropped the handle under
\* it) that write has been issued, the record is (False, "Empty doc") once
\* the write call has returned and the row holds the marker once the sink
\* has taken it. An item whose text has 100 characters or more never sends
\* this marker and never gets this record.
C12_ShortDocument ==
    \A i \in DOMAIN task :
        HasDocId(i) =>
            /\ Fetched(i) /\ beh[i].textLen < MIN_DOC_LEN =>
                    /\ calls[i].eval = 0
                    /\ UpdatesOf(i, "result") = {}
                    /\ \A u \in UpdatesOf(i, "short") :
                            u.row = RowOf(i) /\ u.cells = ShortCells
                    /\ Finished(i) /\ Undisturbed(i) =>
                            /\ UpdatesOf(i, "short") # {}
                            /\ WriteReturns(i) =>
                                    task[i].ret = << FALSE, "Empty doc" >>
                            /\ WriteLands(i) => sink[RowOf(i)] = ShortCells
            /\ beh[i].textLen >= MIN_DOC_LEN =>
                    /\ UpdatesOf(i, "short") = {}
                    /\ sink[RowOf(i)] # ShortCells
                    /\ Finished(i) => task[i].ret # << FALSE, "Empty doc" >>

\* A document of 99 characters, fetched on the third attempt: the item is
\* done with the marker in its row and without a grading call.
C12_Witness ==
    \E i \in DOMAIN task :
        /\ beh[i].textLen = MIN_DOC_LEN - 1
        /\ beh[i].fetchFail = FETCH_ATTEMPTS - 1
        /\ Finished(i)
        /\ task[i].ret = << FALSE, "Empty doc" >>
        /\ sink[RowOf(i)] = ShortCells
        /\ calls[i].eval = 0

\* The cells the except clause sends for an exception whose text is msg.
ErrorCells(msg) ==
    << "ERROR", "Processing failed: " \o Prefix(msg, ERROR_TEXT_CAP) >>
AnyUpdateOf(i) == {u \in updates : u.item = i}

\* C13 as stated: an item whose fetch raises on every attempt fails, sends
\* no result and leaves its row as it was before the run.
C13_RowLeftAsIs ==
    \A i \in DOMAIN task :
        FetchAlwaysFails(i) =>
            /\ AnyUpdateOf(i) = {}
            /\ sink[RowOf(i)] = PreRun
            /\ Finished(i) => ~task[i].ret[1]

\* C13 amended: an item whose fetch raises on every attempt makes no grading
\* call and sends no score; all it sends is the best-effort marker
\* ("ERROR", "Processing failed: <error>") for its own row. When it is done
\* its record is (False, <the fetch error>) after exactly three fetch calls,
\* and its row holds the marker if the sink took that write and is as before
\* the run if it did not.
C13_FetchFailureMarker ==
    \A i \in DOMAIN task :
        FetchAlwaysFails(i) =>
            /\ calls[i].eval = 0
            /\ \A u \in AnyUpdateOf(i) :
                    /\ u.site = "error" /\ u.row = RowOf(i)
                    /\ u.cells = ErrorCells("RetryError")
            /\ sink[RowOf(i)] \in {PreRun, ErrorCells("RetryError")}
            /\ Finished(i) =>
                    /\ task[i].ret = << FALSE, "RetryError" >>
                    /\ calls[i].fetch = FETCH_ATTEMPTS
                    /\ Undisturbed(i) => AnyUpdateOf(i) # {}
                    /\ Undisturbed(i) /\ WriteLands(i) =>
                            sink[RowOf(i)] = ErrorCells("RetryError")
                    /\ ~WriteLands(i) => sink[RowOf(i)] = PreRun

\* The fetch of an item has failed three times and the item is done with
\* the marker of the except clause in its row.
C13_Witness ==
    \E i \in DOMAIN task :
        /\ FetchAlwaysFails(i)
        /\ Finished(i)
        /\ calls[i].fetch = FETCH_ATTEMPTS
        /\ task[i].ret = << FALSE, "RetryError" >>
        /\ sink[RowOf(i)] = ErrorCells("RetryError")

\* Item i reaches the write of its score: the text is fetched and long
\* enough (evaluate always returns).
ReachesResultWrite(i) ==
    /\ HasDocId(i)
    /\ beh[i].fetchFail < FETCH_ATTEMPTS
    /\ beh[i].textLen >= MIN_DOC_LEN
\* Every attempt of the write_to_sheet call for the score hits a transport
\* error: the call raises.
ResultWriteFails(i) ==
    ReachesResultWrite(i) /\ TransportFails(i) >= WRITE_ATTEMPTS

\* C14: when the write of (score, feedback) has raised after its five
\* attempts, the only other thing the item sends is the best-effort marker
\* ("ERROR", "Processing failed: <write error>") for the same row, in one
\* write call of at most five attempts; the item ends with the record
\* (False, <the error of the score write>) whether or not the best-effort
\* write went through, and its future does not raise.
C14_BestEffortWrite ==
    \A i \in DOMAIN task :
        ResultWriteFails(i) =>
            /\ \A u \in AnyUpdateOf(i) :
                    /\ u.row = RowOf(i)
                    /\ u.site \in {"result", "error"}
                    /\ u.site = "error" => u.cells = ErrorCells("RetryError")
                    /\ u.site = "result" => ~u.ok
            /\ UpdatesOf(i, "error") # {} => calls[i].update > WRITE_ATTEMPTS
            /\ calls[i].update <= 2 * WRITE_ATTEMPTS
            /\ Finished(i) =>
                    /\ task[i].ret = << FALSE, "RetryError" >>
                    /\ ~task[i].raised
                    /\ UpdatesOf(i, "error") # {}
                    /\ calls[i].update =
                            IF TransportFails(i) < 2 * WRITE_ATTEMPTS
                            THEN TransportFails(i) + 1
                            ELSE 2 * WRITE_ATTEMPTS
                    /\ sink[RowOf(i)] =
                            IF TransportFails(i) < 2 * WRITE_ATTEMPTS
                               /\ ~beh[i].reject
                            THEN ErrorCells("RetryError")
                            ELSE PreRun

\* Both the score write and the best-effort write have used up their five
\* attempts: the item is done, its record names the failure, its row is as
\* before the run.
C14_Witness ==
    \E i \in DOMAIN task :
        /\ ResultWriteFails(i)
        /\ Finished(i)
        /\ calls[i].update = 2 * WRITE_ATTEMPTS
        /\ UpdatesOf(i, "error") # {}
        /\ task[i].ret = << FALSE, "RetryError" >>
        /\ sink[RowOf(i)] = PreRun

Markers == {"ERROR", "N/A"}
HasMarker(r) == sink[r][1] \in Markers /\ sink[r][2] # ""
\* The item got no score: it failed, or its record carries a marker.
NotScored(i) == ~task[i].ret[1] \/ task[i].ret[2] \in Markers
\* The sink has applied an update the item sent.
SinkTookWrite(i) == \E u \in AnyUpdateOf(i) : u.ok

C16_NoHalfWrittenRow ==
    \A r \in Positions :
        \/ sink[r] = PreRun
        \/ \E u \in updates : u.ok /\ u.row = r /\ sink[r] = u.cells

\* A score has been written: the row holds the score and the feedback of the
\* same update, while another row is still as before the run.
C16_Witness ==
    /\ \E u \in updates :
        /\ u.ok /\ u.site = "result"
        /\ sink[u.row] = u.cells
        /\ sink[u.row][1] # PreRun[1] /\ sink[u.row][2] # PreRun[2]
    /\ \E i \in DOMAIN task : Running(task[i]) /\ sink[RowOf(i)] = PreRun

\* str(n) for the scores 0..100, and the two sentinels.
ScoreTexts == {ToString(n) : n \in 0..100} \cup Markers

\* C17: every score text sent to the sink is a number 0..100 in decimal or
\* one of "ERROR" and "N/A", whatever object the grading call returned.
C17_ScoreTextDomain ==
    \A u \in updates : u.cells[1] \in ScoreTexts

\* Nothing has been dispatched and nothing has been sent anywhere.
NothingDone ==
    /\ queue = << >> /\ task = << >> /\ calls = << >>
    /\ updates = {}
    /\ \A r \in Positions : sink[r] = PreRun
    /\ summary = NoSummary

\* C18: once the bulk read has returned and there are no rows,
\* process_all_documents has returned (the process ends with status 0)
\* without a task dispatched, a remote call for an item or a sink write.
C18_ZeroRows ==
    readTry > readFails /\ Len(sheet) = 0 =>
        /\ mainpc = "norows"
        /\ rows = << >>
        /\ NothingDone
        /\ exit_status = 0

\* The read failed once, then returned no rows: the run is over.
C18_Witness ==
    /\ Len(sheet) = 0
    /\ readFails = 1 /\ readTry = 2
    /\ mainpc = "norows"
    /\ exit_status = 0

\* C19: when every attempt of the bulk read raises, nothing is ever
\* dispatched or written; after the fifth attempt the error has left
\* process_all_documents and the process exits with status 1. The run is
\* fatal in no other case.
C19_ReadFailureFatal ==
    /\ readFails >= READ_ATTEMPTS =>
            /\ mainpc \in {"read", "fatal"}
            /\ NothingDone
            /\ readTry <= READ_ATTEMPTS
            /\ mainpc = "fatal" <=> readTry = READ_ATTEMPTS
            /\ readTry = READ_ATTEMPTS => exit_status = 1
    /\ mainpc = "fatal" => readFails >= READ_ATTEMPTS

\* Five attempts of the bulk read of a sheet with rows have failed and the
\* process has exited with status 1.
C19_Witness ==
    /\ Len(sheet) > 0
    /\ readTry = READ_ATTEMPTS
    /\ mainpc = "fatal"
    /\ exit_status = 1
    /\ task = << >>

Min(a, b) == IF a < b THEN a ELSE b
\* The read, and every call of item i, fails fewer times than its cap, the
\* writes with transport errors.
FewFailures(i) ==
    /\ beh[i].fetchFail < FETCH_ATTEMPTS
    /\ TransportFails(i) < WRITE_ATTEMPTS /\ Refusals(i) = 0
\* The record and the row of item i when none of its remote calls fails,
\* from its row and the answers of the remote services.
CleanRet(i) ==
    IF DocUrl(i) = UrlEmpty THEN << FALSE, "No URL" >>
    ELSE IF ~HasDocId(i) THEN << FALSE, "Invalid URL" >>
    ELSE IF beh[i].textLen < MIN_DOC_LEN THEN << FALSE, "Empty doc" >>
    ELSE << TRUE, Str(Get(evaluate(beh[i].resp), "total_score", Text("ERROR"))) >>
CleanCells(i) ==
    IF DocUrl(i) = UrlEmpty \/ beh[i].reject THEN PreRun
    ELSE IF ~HasDocId(i) THEN InvalidCells
    ELSE IF beh[i].textLen < MIN_DOC_LEN THEN ShortCells
    ELSE SentCells(CleanRet(i)[2], format_feedback(evaluate(beh[i].resp)))
\* The update that follows update u in the same write_to_sheet call.
NextAttempt(u) ==
    {v \in updates :
        v.item = u.item /\ v.site = u.site /\ v.attempt = u.attempt + 1}

\* C20 as stated: a failure of the Nth call of the bulk read, of a fetch or
\* of a write, for every N up to and including the operation's cap, is
\* followed by call N+1 of that operation.
C20_RetryThroughCap ==
    /\ mainpc # "read" =>
            \A N \in 1..READ_ATTEMPTS : readFails >= N => readTry >= N + 1
    /\ \A i \in DOMAIN task :
            Finished(i) /\ HasDocId(i) =>
                \A N \in 1..FETCH_ATTEMPTS :
                    beh[i].fetchFail >= N => calls[i].fetch >= N + 1
    /\ \A u \in updates :
            /\ Finished(u.item) /\ Undisturbed(u.item)
            /\ u.transport /\ u.attempt <= WRITE_ATTEMPTS
            => NextAttempt(u) # {}

\* C20 amended: a failure of the Nth call of an operation is followed by
\* call N+1 when N is below the cap (5 for the bulk read and a write, 3 for
\* a fetch), and when that call succeeds the run shows no trace of the
\* failures: rows, record and row content are those of a run without them.
\* A failure of the call that reaches the cap is the last call of the
\* operation and its error is surfaced: the run is fatal (read), the item
\* fails with the error as reason (fetch, write; the caller of the
\* best-effort write swallows it).
C20_RetryBelowCap ==
    /\ readTry <= READ_ATTEMPTS
    /\ mainpc # "read" =>
            /\ readTry = Min(readFails + 1, READ_ATTEMPTS)
            /\ readFails < READ_ATTEMPTS => mainpc # "fatal" /\ rows = sheet
            /\ readFails >= READ_ATTEMPTS => mainpc = "fatal"
    /\ \A i \in DOMAIN task :
            /\ calls[i].fetch <= FETCH_ATTEMPTS
            /\ Finished(i) /\ HasDocId(i) =>
                    /\ calls[i].fetch = Min(beh[i].fetchFail + 1, FETCH_ATTEMPTS)
                    /\ beh[i].fetchFail >= FETCH_ATTEMPTS =>
                            task[i].ret = << FALSE, "RetryError" >>
            /\ Finished(i) /\ Undisturbed(i) /\ FewFailures(i) =>
                    /\ task[i].ret = CleanRet(i)
                    /\ sink[RowOf(i)] = CleanCells(i)
    /\ \A u \in updates :
            /\ u.attempt <= WRITE_ATTEMPTS
            /\ Finished(u.item) /\ Undisturbed(u.item) /\ u.transport =>
                    /\ u.attempt < WRITE_ATTEMPTS => NextAttempt(u) # {}
                    /\ u.attempt = WRITE_ATTEMPTS =>
                            /\ NextAttempt(u) = {}
                            /\ u.site # "error" =>
                                    task[u.item].ret = << FALSE, "RetryError" >>

\* The bulk read succeeded on its fifth call, the fetch on its third, the
\* write of the score on its fifth: the item is scored as if nothing failed.
C20_Witness ==
    /\ readFails = READ_ATTEMPTS - 1 /\ readTry = READ_ATTEMPTS
    /\ \E i \in DOMAIN task :
        /\ beh[i].fetchFail = FETCH_ATTEMPTS - 1
        /\ calls[i].fetch = FETCH_ATTEMPTS
        /\ beh[i].writeFail = WRITE_ATTEMPTS - 1
        /\ calls[i].update = WRITE_ATTEMPTS
        /\ Finished(i)
        /\ task[i].ret = << TRUE, "85" >>
        /\ sink[RowOf(i)] = GoodCells

\* ---- C21..C30: error kinds, the shared handle, the evaluation client
\* The attempts of an operation that follow an attempt which raised a
\* transport error.
RetriedGets ==
    {g \in gets :
        /\ g.attempt > 1
        /\ IF g.op = "read" THEN readErr = "transport"
           ELSE beh[g.item].fetchErr = "transport"}
RetriedUpdates == {u \in updates : u.attempt > 1}

\* C21: for the bulk read, the fetch and the write alike, an attempt that
\* follows a transport error of the same operation runs on a handle that was
\* created after that error, not on the handle the failed attempt used.
C21_RebuildBeforeRetry ==
    /\ \A g \in RetriedGets : g.fresh
    /\ \A u \in RetriedUpdates : u.fresh

\* The bulk read, the fetch of item i, a write of item i is refused with an
\* error of kind k.
ReadRefused(k) == readErr = k /\ readFails > 0
FetchRefused(i, k) == beh[i].fetchErr = k /\ beh[i].fetchFail > 0
WriteRefused(i, k) == beh[i].writeErr = k /\ beh[i].writeFail > 0

\* C22: an operation whose remote call is refused for its credentials makes
\* that one call and no other, and the refusal reaches its caller: the run
\* is fatal (read), the item fails (fetch, write).
C22_AuthNotRetried ==
    /\ ReadRefused("auth") =>
            /\ readTry <= 1
            /\ readTry = 1 => mainpc = "fatal"
    /\ \A i \in DOMAIN task :
            /\ FetchRefused(i, "auth") =>
                    /\ calls[i].fetch <= 1
                    /\ Finished(i) /\ HasDocId(i) => ~task[i].ret[1]
            /\ WriteRefused(i, "auth") =>
                    /\ \A u \in AnyUpdateOf(i) : u.attempt = 1
                    /\ Finished(i) => ~task[i].ret[1]

\* The updates of item i the sink answered with an error of kind k.
RefusedUpdates(i, k) ==
    {u \in AnyUpdateOf(i) :
        ~u.ok /\ ~u.transport /\ ~beh[i].reject /\ beh[i].writeErr = k}

\* C23: a rate-limited call of the bulk read, of a fetch or of a write is
\* followed by another call of the operation while the cap (5, 3, 5) is not
\* reached, and the error reaches the caller once the cap is reached, not
\* before.
C23_RateLimitRetried ==
    /\ ReadRefused("ratelimit") /\ mainpc # "read" =>
            /\ readTry = Min(readFails + 1, READ_ATTEMPTS)
            /\ mainpc = "fatal" <=> readFails >= READ_ATTEMPTS
    /\ \A i \in DOMAIN task :
            /\ FetchRefused(i, "ratelimit") /\ HasDocId(i) /\ Finished(i) =>
                    /\ calls[i].fetch = Min(beh[i].fetchFail + 1, FETCH_ATTEMPTS)
                    /\ beh[i].fetchFail >= FETCH_ATTEMPTS =>
                            task[i].ret = << FALSE, "RetryError" >>
            /\ Finished(i) =>
                    \A u \in RefusedUpdates(i, "ratelimit") :
                        u.attempt < WRITE_ATTEMPTS => NextAttempt(u) # {}

\* The record of item i when its write_to_sheet call at the given site
\* returns normally.
ReturnAfter(i, site) ==
    CASE site = "invalid" -> << FALSE, "Invalid URL" >>
      [] site = "short" -> << FALSE, "Empty doc" >>
      [] site = "result" ->
            << TRUE, Str(Get(evaluate(beh[i].resp), "total_score",
                             Text("ERROR"))) >>
      [] OTHER -> << FALSE, "RetryError" >>

\* C24: an update the sink answers with an error that is no transport error
\* is the last attempt of its write_to_sheet call and changes no cell; the
\* call returns normally, so the item goes on as after a successful write
\* and never enters its except clause for it. An update that hits a
\* transport error changes no cell either, but is raised to the retry
\* decorator: another attempt follows below the cap, and at the cap the
\* call raises.
C24_WriteErrorSplit ==
    \A u \in updates :
        /\ ~u.ok /\ ~u.transport =>
                /\ NextAttempt(u) = {}
                /\ u.site # "error" => UpdatesOf(u.item, "error") = {}
                /\ sink[u.row] = PreRun
                /\ Finished(u.item) =>
                        /\ task[u.item].ret = ReturnAfter(u.item, u.site)
                        /\ ~task[u.item].raised
        /\ u.transport /\ Finished(u.item) =>
                /\ u.attempt < WRITE_ATTEMPTS => NextAttempt(u) # {}
                /\ u.attempt = WRITE_ATTEMPTS /\ u.site # "error" =>
                        /\ UpdatesOf(u.item, "error") # {}
                        /\ task[u.item].ret = << FALSE, "RetryError" >>

\* The write of a score hit a transport error and was tried again; the sink
\* refused the second attempt, and the item is done and reported as scored
\* with its row as before the run.
C24_Witness ==
    \E u \in updates : \E v \in NextAttempt(u) :
        /\ u.site = "result" /\ u.transport /\ u.attempt = 1
        /\ ~v.ok /\ ~v.transport
        /\ Finished(u.item)
        /\ task[u.item].ret = << TRUE, "85" >>
        /\ calls[u.item].update = 2
        /\ sink[u.row] = PreRun

\* A write attempt of item i is in flight: the sheets_service property has
\* tested the handle for it and the update has not been issued yet.
WriteInFlight(i) == task[i].pc = "wcall"

\* C25: while a write attempt of a task is in flight, the shared sheet
\* handle is never in its dropped state (None), whatever rebuilds the
\* other tasks run meanwhile.
C25_RebuildSafe ==
    \A i \in DOMAIN task : WriteInFlight(i) => sheets_service # 0

\* The feedback argument of the write_to_sheet call that issued update u.
PassedFeedback(u) ==
    CASE u.site = "invalid" -> "Invalid document URL"
      [] u.site = "short" -> "Document empty or too short"
      [] u.site = "result" -> format_feedback(evaluate(beh[u.item].resp))
      [] OTHER -> "Processing failed: RetryError"

\* C26: the feedback cell of every update is the feedback the call site
\* passed when that has 5000 characters or fewer; when it has more, the cell
\* has exactly 5000 characters, the first 4997 of the feedback followed by
\* "...".
C26_FeedbackTruncation ==
    \A u \in updates :
        LET passed == PassedFeedback(u)
            sent == u.cells[2]
        IN  /\ Len(passed) <= 5000 => sent = passed
            /\ Len(passed) > 5000 =>
                    /\ Len(sent) = 5000
                    /\ SubSeq(sent, 1, 4997) = SubSeq(passed, 1, 4997)
                    /\ SubSeq(sent, 4998, 5000) = "..."

\* A feedback of 5001 characters was written: the row holds 5000 characters
\* ending in the marker.
C26_Witness ==
    \E u \in updates :
        /\ u.site = "result" /\ u.ok
        /\ Len(PassedFeedback(u)) = 5001
        /\ sink[u.row] = u.cells
        /\ Len(sink[u.row][2]) = 5000
        /\ SubSeq(sink[u.row][2], 4998, 5000) = "..."

\* The answers with which grading fails: the call raises, the content is no
\* JSON, or the JSON is no object.
FailedAnswers == RaisedErrors \cup {"garbage", "list"}
\* evaluate has been called for item i and is over.
Evaluated(i) == calls[i].eval > 0 /\ task[i].pc # "eval"

\* C27: whenever the grading of an item fails, evaluate returns a result
\* with total_score "ERROR", an empty breakdown and a recommendations text
\* that says "Evaluation failed: " and names the failure. Nothing is raised
\* to process_single_document: the item goes on to write ("ERROR", that
\* text) as its result, enters its except clause only if that write
\* raises, and ends with the record (True, "ERROR") when the write returns.
C27_FailuresBecomeResults ==
    \A i \in DOMAIN task :
        beh[i].resp \in FailedAnswers /\ calls[i].eval > 0 =>
            LET r == evaluate(beh[i].resp)
                why == Get(r, "recommendations", "")
            IN  /\ Get(r, "total_score", Text("")) = Text("ERROR")
                /\ Get(r, "breakdown", "none") = << >>
                /\ Len(why) > Len("Evaluation failed: ")
                /\ Prefix(why, Len("Evaluation failed: ")) = "Evaluation failed: "
                /\ Evaluated(i)
                /\ calls[i].eval = 1
                /\ \A u \in UpdatesOf(i, "result") : u.cells = << "ERROR", why >>
                /\ UpdatesOf(i, "error") # {} => TransportFails(i) >= WRITE_ATTEMPTS
                /\ Finished(i) =>
                        /\ ~task[i].raised
                        /\ UpdatesOf(i, "result") # {}
                        /\ WriteReturns(i) => task[i].ret = << TRUE, "ERROR" >>

\* The grading service answered with a JSON list: the item is done, its
\* row holds "ERROR" and the explanation evaluate returned.
C27_Witness ==
    \E i \in DOMAIN task :
        /\ beh[i].resp = "list"
        /\ Finished(i)
        /\ task[i].ret = << TRUE, "ERROR" >>
        /\ sink[RowOf(i)] =
                << "ERROR",
                   "Evaluation failed: Evaluation error: "
                   \o "'list' object has no attribute 'get'" >>

\* The errors of the grading call that a later call may not meet again: the
\* rate limit and an unspecific failure of the service.
TransientErrors == {"quota", "limited", "error"}

\* C28: when the grading call of an item fails with a transient error on
\* every call, evaluate is over only after RETRY_ATTEMPTS calls of the
\* service.
C28_GradingCallRetried ==
    \A i \in DOMAIN task :
        beh[i].resp \in TransientErrors /\ Evaluated(i) =>
            calls[i].eval = RETRY_ATTEMPTS

\* What fails in each failing answer: the content is unparsable ("parse"),
\* the key is revoked or leaked ("key"), the call is unauthorized ("auth"),
\* the rate limit or quota is exceeded ("rate"), anything else ("other": an
\* unspecific error, a model that is not found, a JSON list).
FailureClass(resp) ==
    CASE resp = "garbage" -> "parse"
      [] resp \in {"leaked", "revoked"} -> "key"
      [] resp \in {"unauth", "denied"} -> "auth"
      [] resp \in {"quota", "limited"} -> "rate"
      [] OTHER -> "other"
\* The detail of a failure of class "other".
FailureDetail(resp) ==
    IF resp = "list" THEN "'list' object has no attribute 'get'"
    ELSE ErrorText(resp)
\* The reason the table of the claim gives for a failing answer.
TableReason(resp) ==
    CASE FailureClass(resp) = "parse" -> "JSON parsing error"
      [] FailureClass(resp) = "key" ->
            "API key is invalid or has been revoked. "
            \o "Please generate a new key."
      [] FailureClass(resp) = "auth" ->
            "API authentication failed. Check your API key."
      [] FailureClass(resp) = "rate" ->
            "API rate limit exceeded. Gemini free tier allows only 5 "
            \o "requests per minute. Please wait and retry."
      [] OTHER -> "Evaluation error: " \o FailureDetail(resp)

\* C29: the reason evaluate reports for a failed grading is the one of the
\* table for the class of the failure; in particular the rate-limit reason
\* is reported for rate and quota errors only.
C29_FailureClassification ==
    \A i \in DOMAIN task :
        beh[i].resp \in FailedAnswers /\ Evaluated(i) =>
            /\ evaluate(beh[i].resp).recommendations =
                    "Evaluation failed: " \o TableReason(beh[i].resp)
            /\ \A u \in UpdatesOf(i, "result") :
                    u.cells[2] = "Evaluation failed: " \o TableReason(beh[i].resp)

\* The marks a criterion can get and the criteria of the rubric.
AllowedMarks == {0, 5, 10, 15, 20, 25}
Criteria ==
    {"tab1_create_insert", "tab2_er_model", "tab3_indexes", "tab4_description"}
\* A scored result: a number in 0..100 that is the sum of four allowed marks.
ScoredResult(r) ==
    /\ {"total_score", "breakdown"} \subseteq DOMAIN r
    /\ "num" \in DOMAIN r.total_score
    /\ r.total_score.num \in 0..100
    /\ DOMAIN r.breakdown = Criteria
    /\ \A c \in Criteria : r.breakdown[c] \in AllowedMarks
    /\ r.total_score.num =
            r.breakdown.tab1_create_insert + r.breakdown.tab2_er_model
            + r.breakdown.tab3_indexes + r.breakdown.tab4_description
\* An error result: the sentinel and an empty breakdown.
ErrorResult(r) ==
    /\ {"total_score", "breakdown"} \subseteq DOMAIN r
    /\ r.total_score = Text("ERROR")
    /\ DOMAIN r.breakdown = {}

\* C30: every result evaluate has returned is a scored result or an error
\* result (never both).
C30_ResultInvariant ==
    \A i \in DOMAIN task :
        Evaluated(i) =>
            /\ ScoredResult(evaluate(beh[i].resp))
                    \/ ErrorResult(evaluate(beh[i].resp))
            /\ ~(ScoredResult(evaluate(beh[i].resp))
                    /\ ErrorResult(evaluate(beh[i].resp)))

\* ---- C31..C38: determinism, formatting, ID resolution, frames, bounds
\* Items i and j hand evaluate the same input: the same document (link and
\* text) and the same name.
SameInput(i, j) == sheet[i] = sheet[j] /\ beh[i].textLen = beh[j].textLen
\* sum(breakdown.values()) of a result with the four criteria.
BreakdownSum(r) ==
    r.breakdown.tab1_create_insert + r.breakdown.tab2_er_model
    + r.breakdown.tab3_indexes + r.breakdown.tab4_description

\* C31: two calls of evaluate with the same input return the same breakdown,
\* and the total_score of each is the sum of its breakdown.
C31_ScoringDeterminism ==
    \A i, j \in DOMAIN task :
        SameInput(i, j) /\ Evaluated(i) /\ Evaluated(j) =>
            /\ evaluate(beh[i].resp).breakdown = evaluate(beh[j].resp).breakdown
            /\ evaluate(beh[i].resp).total_score =
                    Num(BreakdownSum(evaluate(beh[i].resp)))

\* The result evaluate returned for item i is in the ERROR state.
ErrorState(i) ==
    Get(evaluate(beh[i].resp), "total_score", Text("")) = Text("ERROR")

\* C32: for a result whose total_score is "ERROR", format_feedback returns
\* the recommendations of the result and nothing else, whether the other
\* texts are empty (an error result of evaluate) or populated: that string
\* is the feedback of every result write of the item.
C32_ErrorFeedback ==
    \A i \in DOMAIN task :
        LET r == evaluate(beh[i].resp)
        IN  Evaluated(i) /\ ErrorState(i) =>
                /\ format_feedback(r) = r.recommendations
                /\ \A u \in UpdatesOf(i, "result") :
                        u.cells = << "ERROR", r.recommendations >>

\* The grading service answered with total_score "ERROR" and all texts
\* populated: the row holds the recommendations alone.
C32_Witness ==
    \E i \in DOMAIN task :
        /\ beh[i].resp = "errfull"
        /\ evaluate(beh[i].resp).strengths # ""
        /\ evaluate(beh[i].resp).plagiarism_flags # ""
        /\ Finished(i)
        /\ sink[RowOf(i)] = << "ERROR", "Submit again" >>

\* The IDs that follow an occurrence of the marker in url: the non-empty
\* stretches of identifier-safe characters that start right after the marker
\* and end where the string or the stretch ends.
IdsAfter(url, marker) ==
    {SubSeq(url, p + Len(marker), q) :
        << p, q >> \in
            {pq \in (1..Len(url)) \X (1..Len(url)) :
                /\ pq[1] + Len(marker) <= pq[2]
                /\ SubSeq(url, pq[1], pq[1] + Len(marker) - 1) = marker
                /\ \A k \in (pq[1] + Len(marker))..pq[2] : url[k] \in IdChars
                /\ pq[2] = Len(url) \/ url[pq[2] + 1] \notin IdChars}}
IdSafe(url) == Len(url) > 0 /\ \A k \in 1..Len(url) : url[k] \in IdChars
\* The document IDs item i has asked the document store for.
FetchedIds(i) == {g.doc : g \in {h \in gets : h.op = "fetch" /\ h.item = i}}

\* C33: the ID an item fetches is one that follows "/d/" in its reference
\* when there is one; else one that follows "id="; else the whole reference
\* when it consists of identifier-safe characters; in these cases the item
\* asks the document store for that ID and no other. A non-empty reference
\* of none of the three forms resolves to no ID: the item fetches nothing
\* and is marked as an invalid reference.
C33_IdResolution ==
    \A i \in DOMAIN task :
        LET url == DocUrl(i)
            path == IdsAfter(url, << "/", "d", "/" >>)
            query == IdsAfter(url, << "i", "d", "=" >>)
            tried == task[i].pc \notin {"queued", "fetch", "dbuild"}
        IN  url # UrlEmpty =>
                /\ Cardinality(FetchedIds(i)) <= 1
                /\ path # {} => FetchedIds(i) \subseteq path
                /\ path = {} /\ query # {} => FetchedIds(i) \subseteq query
                /\ path = {} /\ query = {} /\ IdSafe(url) =>
                        FetchedIds(i) \subseteq {url}
                /\ path # {} \/ query # {} \/ IdSafe(url) =>
                        /\ UpdatesOf(i, "invalid") = {}
                        /\ tried => FetchedIds(i) # {}
                /\ path = {} /\ query = {} /\ ~IdSafe(url) =>
                        /\ FetchedIds(i) = {}
                        /\ Finished(i) => task[i].ret = << FALSE, "Invalid URL" >>

\* The write_to_sheet call for the score of item i has raised: its fifth
\* attempt hit a transport error.
ResultWriteRaised(i) ==
    \E u \in UpdatesOf(i, "result") : u.transport /\ u.attempt = WRITE_ATTEMPTS

\* C34: an item that is done is a success exactly when its evaluation was
\* run and the write of its score did not raise; the record then carries
\* the score text, whatever it is and whether or not the sink has taken the
\* write.
C34_SuccessFlag ==
    \A i \in DOMAIN task :
        Finished(i) =>
            /\ ~task[i].raised
            /\ task[i].ret[1] <=> calls[i].eval > 0 /\ ~ResultWriteRaised(i)
            /\ task[i].ret[1] =>
                    task[i].ret[2] =
                        Str(Get(evaluate(beh[i].resp), "total_score",
                                Text("ERROR")))

\* The grading call raised and the sink refused the write: the item is done
\* and counted as a success with score "ERROR", its row as before the run.
C34_Witness ==
    \E i \in DOMAIN task :
        /\ beh[i].resp = "error" /\ beh[i].reject
        /\ Finished(i)
        /\ UpdatesOf(i, "result") # {}
        /\ task[i].ret = << TRUE, "ERROR" >>
        /\ sink[RowOf(i)] = PreRun

\* The update calls on row p that did not end in a re-raised error: the
\* write_to_sheet call they belong to returned.
CompletedOn(p) == {u \in updates : u.row = p /\ ~u.transport}

\* An exception has reached the except clause of item i: the fetch or a
\* write of another call site has used up its attempts.
ExceptionSeen(i) ==
    \/ \E g \in gets : /\ g.op = "fetch" /\ g.item = i
                        /\ g.raised /\ g.attempt = FETCH_ATTEMPTS
    \/ \E u \in AnyUpdateOf(i) : /\ u.site # "error" /\ u.transport
                                 /\ u.attempt = WRITE_ATTEMPTS

\* C35: no row has more than one update call that completes without a
\* re-raised error, and the best-effort write of an item is sent only after
\* an exception, never after a completed update of the same item.
C35_SingleCompletedWrite ==
    /\ \A p \in Positions : Cardinality(CompletedOn(p)) <= 1
    /\ \A i \in DOMAIN task :
            UpdatesOf(i, "error") # {} =>
                /\ ExceptionSeen(i)
                /\ \A u \in AnyUpdateOf(i) : u.site # "error" => u.transport

\* The score write of an item used up its attempts on transport errors and
\* the best-effort write that followed is the one completed update of the
\* row.
C35_Witness ==
    \E i \in DOMAIN task :
        /\ Finished(i)
        /\ Cardinality(UpdatesOf(i, "result")) = WRITE_ATTEMPTS
        /\ \E u \in UpdatesOf(i, "error") : u.ok
        /\ Cardinality(CompletedOn(RowOf(i))) = 1

\* The remote calls of item i, counted from the calls themselves.
FetchCalls(i) == {g \in gets : g.op = "fetch" /\ g.item = i}

\* C36: one item issues at most FETCH_ATTEMPTS document fetches, at most one
\* grading call and at most 2 * WRITE_ATTEMPTS sheet updates, of which at
\* most WRITE_ATTEMPTS belong to any one call site, whatever the remote
\* services answer.
C36_BoundedCalls ==
    \A i \in DOMAIN task :
        /\ calls[i].fetch <= FETCH_ATTEMPTS
        /\ calls[i].fetch = Cardinality(FetchCalls(i))
        /\ calls[i].eval <= 1
        /\ calls[i].update <= 2 * WRITE_ATTEMPTS
        /\ calls[i].update = Cardinality(AnyUpdateOf(i))
        /\ \A site \in {"invalid", "short", "result", "error"} :
                Cardinality(UpdatesOf(i, site)) <= WRITE_ATTEMPTS

\* An item that needed its third fetch, was graded, and had both its score
\* write and its best-effort write fail five times: every limit is met.
C36_Witness ==
    \E i \in DOMAIN task :
        /\ Finished(i)
        /\ calls[i].fetch = FETCH_ATTEMPTS
        /\ calls[i].eval = 1
        /\ calls[i].update = 2 * WRITE_ATTEMPTS

\* The sink rows of a run that has read its rows: one per row read, from
\* start_row on.
Frame == start_row .. (start_row + Len(rows) - 1)

\* The row read that a sink row of the frame belongs to (1-based in rows).
ReadAt(p) == rows[p - start_row + 1]

\* C37: every update addresses a row of the frame, the update at row
\* start_row + k comes from the task of the k-th row read (0-based) and
\* reports an invalid reference exactly when that row's reference is one;
\* the rows before start_row and after the last row read keep their cells.
C37_WriteFrame ==
    /\ \A u \in updates :
            /\ u.row \in Frame
            /\ u.item - 1 = u.row - start_row
            /\ u.site = "invalid" <=>
                    /\ Len(ReadAt(u.row)) > 0
                    /\ ReadAt(u.row)[1] # UrlEmpty
                    /\ extract_doc_id(ReadAt(u.row)[1]) = << >>
    /\ \A p \in Positions :
            sink[p] # PreRun => mainpc # "read" /\ p \in Frame

\* Two rows were read and both are written, the second with the report of
\* its invalid reference; the row before start_row and the rows after the
\* second row read are as before the run.
C37_Witness ==
    /\ mainpc = "done"
    /\ Len(rows) = 2
    /\ sink[start_row] # PreRun
    /\ sink[start_row + 1] = << "ERROR", "Invalid document URL" >>
    /\ \A p \in Positions \ Frame : sink[p] = PreRun
    /\ Positions \ Frame # {1}

\* A run in which no remote call raises a transport error.
NoTransportErrors ==
    /\ readFails = 0
    /\ \A i \in DOMAIN beh : beh[i].fetchFail = 0 /\ beh[i].writeFail = 0

\* C38: in a run without transport errors the sheet handle and the document
\* handle are each built at most once, so that every worker is given the
\* same handle, however the workers' first uses interleave.
C38_LazyInitOnce ==
    NoTransportErrors => builds <= 1 /\ docs_service <= 1

====
